---- MODULE Spec2Model ----
(***************************************************************************)
(* The snake game of src/src/main.rs: the Game session (snake, committed   *)
(* and pending direction, apple, score, level, game_over, board size) and  *)
(* its operations Game::new, place_apple, set_direction, step and          *)
(* tick_duration; main and the loop of run_app that drives the session.    *)
(***************************************************************************)
EXTENDS Integers, Sequences, FiniteSets, TLC

VARIABLES snake, dir, next_dir, apple, score, width, height, game_over, level,
          tick_dur, turns, pc, elapsed, raw_mode, cleaned, res

\* the fields of struct Game (rng is the source of the draws of place_apple,
\* base_tick_ms is the constant BaseTickMs)
game == <<snake, dir, next_dir, apple, score, width, height, game_over, level>>
\* main and run_app: the place in the code, the time since last_tick, the
\* terminal's raw mode, the cleanup calls made and the result of run_app
loop == <<pc, elapsed, raw_mode, cleaned, res>>
vars == <<snake, dir, next_dir, apple, score, width, height, game_over, level,
          tick_dur, turns, pc, elapsed, raw_mode, cleaned, res>>

----------------------------------------------------------------------------
\* Program constants

U16Max == 65535
MinWidth == 10
MinHeight == 5
BorderCols == 2
BorderRows == 4
MaxTries == 1000
FallbackX == 1
FallbackY == 1
LevelEvery == 5
BaseTickMs == 160
TickReduceMs == 10
MinTickMs == 40

----------------------------------------------------------------------------
\* Bounds of the model

\* the display area (columns, rows) the sessions are built for
MaxAreaWidth == 12
MaxAreaHeight == 9
\* Spec: the generator's draws are below or equal to MaxDraw on each axis
MaxDraw == 1
\* Spec: no apple is eaten once the score reached MaxScore
MaxScore == 2
\* SpecLevel: set_direction calls per session
MaxTurns == 2
\* SpecTick: the levels tick_duration is applied to
MaxLevel == 60
\* SpecApp: set_direction calls per run, and the milliseconds one round of
\* the play loop (draw, poll) takes
MaxAppTurns == 1
FrameMs == 75
\* SpecNew: the columns and the rows of the display areas, besides the
\* largest a u16 holds
MaxNewSide == 16

----------------------------------------------------------------------------
\* Values

Up == "Up"
Down == "Down"
Left == "Left"
Right == "Right"
DirectionEnum == {Up, Down, Left, Right}

Point(px, py) == [x |-> px, y |-> py]

Rect(w, h) == [width |-> w, height |-> h]

Areas == {Rect(MaxAreaWidth, MaxAreaHeight)}

max(a, b) == IF a >= b THEN a ELSE b

\* u16::saturating_sub, u16::saturating_add
saturating_sub(a, b) == IF a >= b THEN a - b ELSE 0

saturating_add(a, b) == IF a + b > U16Max THEN U16Max ELSE a + b

\* the values gen_range(0..n) can return
gen_range(n) == 0 .. (n - 1)

\* the draws of an unrestricted generator, and of one whose draws are at
\* most MaxDraw
AllDraws == 0 .. U16Max

LowDraws == 0 .. MaxDraw

----------------------------------------------------------------------------
\* Game::place_apple: the cells the apple can end on. Each of the MaxTries
\* rounds draws x and y; a free candidate ends the loop, an occupied one
\* goes to the next round; after the last round the apple is the fallback.
\* Every round draws from the same cells against the same snake, so the
\* loop ends on any free cell the generator can draw, or, when it can draw
\* an occupied cell (MaxTries times in a row), on the fallback.
\* Draws is the set of values the generator can return.

occupied(s, px, py) == \E i \in 1..Len(s) : s[i].x = px /\ s[i].y = py

place_apple(s, w, h, Draws) ==
    LET xs == {v \in gen_range(w) : v \in Draws}
        ys == {v \in gen_range(h) : v \in Draws}
        free == {c \in {Point(px, py) : px \in xs, py \in ys} :
                    ~occupied(s, c.x, c.y)}
        busy == \E px \in xs, py \in ys : occupied(s, px, py)
    IN  IF MaxTries = 0
        THEN {Point(FallbackX, FallbackY)}
        ELSE free \cup (IF busy THEN {Point(FallbackX, FallbackY)} ELSE {})

----------------------------------------------------------------------------
\* Game::new

\* (the least width left out)
new_width_unclamped(area) == saturating_sub(area.width, BorderCols)

new_width(area) == max(saturating_sub(area.width, BorderCols), MinWidth)

new_height(area) == max(saturating_sub(area.height, BorderRows), MinHeight)

new_snake(w, h) ==
    LET mid_x == w \div 2
        mid_y == h \div 2
    IN  << Point(mid_x, mid_y),
           Point(saturating_sub(mid_x, 1), mid_y),
           Point(saturating_sub(mid_x, 2), mid_y) >>

\* the sessions Game::new(area) can return
new_game(area, Draws) ==
    LET w == new_width(area)
        h == new_height(area)
        s == new_snake(w, h)
    IN  { [snake |-> s, dir |-> Right, next_dir |-> Right, apple |-> a,
           score |-> 0, width |-> w, height |-> h, game_over |-> FALSE,
           level |-> 1] : a \in place_apple(s, w, h, Draws) }

\* *game = Game::new(area)
new(area, Draws) ==
    \E g \in new_game(area, Draws) :
        /\ snake' = g.snake
        /\ dir' = g.dir
        /\ next_dir' = g.next_dir
        /\ apple' = g.apple
        /\ score' = g.score
        /\ width' = g.width
        /\ height' = g.height
        /\ game_over' = g.game_over
        /\ level' = g.level

----------------------------------------------------------------------------
\* Game::set_direction

\* (a pair missing from the match: the horizontal reversals are let through)
is_reverse_vertical_only(cur, d) ==
    \/ cur = Up /\ d = Down
    \/ cur = Down /\ d = Up

is_reverse(cur, d) ==
    \/ cur = Up /\ d = Down
    \/ cur = Down /\ d = Up
    \/ cur = Left /\ d = Right
    \/ cur = Right /\ d = Left

\* (the request compared with the pending direction, not the committed one)
set_direction_against_pending(d) ==
    /\ next_dir' = IF ~is_reverse(next_dir, d) THEN d ELSE next_dir
    /\ UNCHANGED <<snake, dir, apple, score, width, height, game_over, level>>

set_direction(d) ==
    /\ next_dir' = IF ~is_reverse(dir, d) THEN d ELSE next_dir
    /\ UNCHANGED <<snake, dir, apple, score, width, height, game_over, level>>

----------------------------------------------------------------------------
\* Game::step

\* the head moved one cell in direction d, in saturating u16 arithmetic
new_head(head, d) ==
    CASE d = Up    -> Point(head.x, saturating_sub(head.y, 1))
      [] d = Down  -> Point(head.x, saturating_add(head.y, 1))
      [] d = Left  -> Point(saturating_sub(head.x, 1), head.y)
      [] d = Right -> Point(saturating_add(head.x, 1), head.y)

\* (the border test on the columns only)
hits_border_columns_only(nh, w, h) == nh.x >= w

\* (the border test off by one)
hits_border_off_by_one(nh, w, h) == nh.x > w \/ nh.y > h

\* new_head.x >= self.width || new_head.y >= self.height
hits_border(nh, w, h) == nh.x >= w \/ nh.y >= h

\* (the self-collision test without the tail, which this step would move)
hits_snake_but_tail(s, nh) ==
    \E i \in 1..(Len(s) - 1) : s[i].x = nh.x /\ s[i].y = nh.y

\* (the self-collision test without the head)
hits_snake_but_head(s, nh) ==
    \E i \in 2..Len(s) : s[i].x = nh.x /\ s[i].y = nh.y

\* (the self-collision test left out)
hits_snake_never(s, nh) == FALSE

\* self.snake.iter().any(|s| s.x == new_head.x && s.y == new_head.y)
hits_snake(s, nh) == \E i \in 1..Len(s) : s[i].x = nh.x /\ s[i].y = nh.y

\* Vec::pop
pop(s) == SubSeq(s, 1, Len(s) - 1)

\* (the tail dropped on every step, also when the apple is eaten)
moved_always_pops(s, nh, eats) == pop(<<nh>> \o s)

\* (the tail dropped only when the apple is eaten)
moved_pops_on_apple(s, nh, eats) ==
    IF eats THEN pop(<<nh>> \o s) ELSE <<nh>> \o s

\* the snake after insert(0, new_head), and pop() unless the apple is eaten
moved(s, nh, eats) == IF eats THEN <<nh>> \o s ELSE pop(<<nh>> \o s)

\* score and level after an apple is eaten. Both are u32; the score counts
\* the apples eaten, at most width * height < 2^32, so neither wraps.
\* (the increment left out)
eaten_score_kept(sc) == sc

eaten_score(sc) == sc + 1

\* (the level computed without its base of 1)
eaten_level_from_zero(sc, lv) ==
    IF sc % LevelEvery = 0 THEN sc \div LevelEvery ELSE lv

eaten_level(sc, lv) ==
    IF sc % LevelEvery = 0 THEN 1 + (sc \div LevelEvery) ELSE lv

\* step on a live session
live_step(Draws) ==
    LET nh == new_head(snake[1], next_dir)
    IN  /\ dir' = next_dir
        /\ UNCHANGED <<next_dir, width, height>>
        /\ IF hits_border(nh, width, height)
           THEN /\ game_over' = TRUE
                /\ UNCHANGED <<snake, apple, score, level>>
           ELSE IF hits_snake(snake, nh)
           THEN /\ game_over' = TRUE
                /\ UNCHANGED <<snake, apple, score, level>>
           ELSE /\ UNCHANGED game_over
                /\ IF nh.x = apple.x /\ nh.y = apple.y
                   THEN /\ snake' = moved(snake, nh, TRUE)
                        /\ score' = eaten_score(score)
                        /\ level' = eaten_level(eaten_score(score), level)
                        /\ apple' \in place_apple(moved(snake, nh, TRUE),
                                                  width, height, Draws)
                   ELSE /\ snake' = moved(snake, nh, FALSE)
                        /\ UNCHANGED <<apple, score, level>>

\* (the early return on game_over left out)
step_without_return(Draws) == live_step(Draws)

step(Draws) ==
    IF game_over
    THEN UNCHANGED game
    ELSE live_step(Draws)

----------------------------------------------------------------------------
\* Game::tick_duration, in milliseconds

\* (the floor left out)
tick_duration_without_floor(lv) ==
    LET reduce == (lv - 1) * TickReduceMs
    IN  saturating_sub(BaseTickMs, reduce)

\* (level - 1 is a u32 widened to u64 before the product, which is below
\* 2^36 and cannot wrap; the subtraction from base_tick_ms saturates at 0)
tick_duration(lv) ==
    LET reduce == (lv - 1) * TickReduceMs
    IN  max(saturating_sub(BaseTickMs, reduce), MinTickMs)

----------------------------------------------------------------------------
\* The session under any interleaving of its operations, with the
\* generator's draws at most MaxDraw and the score at most MaxScore.

\* the session is used on its own, outside main
NoLoop ==
    /\ pc = "session"
    /\ elapsed = 0
    /\ raw_mode = FALSE
    /\ cleaned = {}
    /\ res = "none"

\* the session is one that Game::new returned
InitGame(Draws) ==
    \E area \in Areas : \E g \in new_game(area, Draws) :
        /\ snake = g.snake
        /\ dir = g.dir
        /\ next_dir = g.next_dir
        /\ apple = g.apple
        /\ score = g.score
        /\ width = g.width
        /\ height = g.height
        /\ game_over = g.game_over
        /\ level = g.level

Init ==
    /\ InitGame(LowDraws)
    /\ tick_dur = 0
    /\ turns = 0
    /\ NoLoop

Restart ==
    /\ \E area \in Areas : new(area, LowDraws)
    /\ UNCHANGED <<tick_dur, turns, loop>>

SetDirection ==
    /\ \E d \in DirectionEnum : set_direction(d)
    /\ UNCHANGED <<tick_dur, turns, loop>>

\* (a step that would eat an apple beyond MaxScore is not taken)
Step ==
    /\ game_over \/ score < MaxScore \/ new_head(snake[1], next_dir) # apple
    /\ step(LowDraws)
    /\ UNCHANGED <<tick_dur, turns, loop>>

Next == Restart \/ SetDirection \/ Step

Spec == Init /\ [][Next]_vars

----------------------------------------------------------------------------
\* The session with an unrestricted generator and no bound on the score,
\* for a player who calls set_direction at most MaxTurns times.

InitLevel ==
    /\ InitGame(AllDraws)
    /\ tick_dur = 0
    /\ turns = 0
    /\ NoLoop

TurnLevel ==
    /\ turns < MaxTurns
    /\ \E d \in DirectionEnum : set_direction(d)
    /\ turns' = turns + 1
    /\ UNCHANGED <<tick_dur, loop>>

StepLevel ==
    /\ step(AllDraws)
    /\ UNCHANGED <<tick_dur, turns, loop>>

NextLevel == TurnLevel \/ StepLevel

SpecLevel == InitLevel /\ [][NextLevel]_vars

----------------------------------------------------------------------------
\* tick_duration applied to a session of any level up to MaxLevel: the
\* loop's  let tick_dur = game.tick_duration()

InitTick ==
    /\ \E lv \in 1..MaxLevel : \E g \in new_game(Rect(0, 0), LowDraws) :
          /\ snake = g.snake
          /\ dir = g.dir
          /\ next_dir = g.next_dir
          /\ apple = g.apple
          /\ score = LevelEvery * (lv - 1)
          /\ width = g.width
          /\ height = g.height
          /\ game_over = g.game_over
          /\ level = lv
    /\ tick_dur = 0
    /\ turns = 0
    /\ NoLoop

TickDuration ==
    /\ tick_dur' = tick_duration(level)
    /\ UNCHANGED <<game, turns, loop>>

NextTick == TickDuration

SpecTick == InitTick /\ [][NextTick]_vars

----------------------------------------------------------------------------
\* Game::new applied to display areas of any size: game_opt goes from None
\* to Some(Game::new(size))

\* game_opt = None
NoGame ==
    /\ snake = <<>>
    /\ dir = Right
    /\ next_dir = Right
    /\ apple = Point(0, 0)
    /\ score = 0
    /\ width = 0
    /\ height = 0
    /\ game_over = FALSE
    /\ level = 0

NewSides == (0 .. MaxNewSide) \cup {U16Max}

NewAreas == {Rect(w, h) : w \in NewSides, h \in NewSides}

InitNew ==
    /\ NoGame
    /\ tick_dur = 0
    /\ turns = 0
    /\ NoLoop

NewSession ==
    /\ snake = <<>>
    /\ \E area \in NewAreas : new(area, LowDraws)
    /\ UNCHANGED <<tick_dur, turns, loop>>

NextNew == NewSession

SpecNew == InitNew /\ [][NextNew]_vars

----------------------------------------------------------------------------
\* main and run_app. pc is the place in the code: the four setup calls of
\* main, the menu, the head of the outer loop once show_menu is false, the
\* head of the play loop, its tick test, the game-over loop, the three
\* cleanup calls of main and its report. Every call that returns a Result
\* either succeeds or fails. A key is read or not in each round of a loop;
\* the generator is unrestricted; the player's direction keys are at most
\* MaxAppTurns in a run.

CleanupCalls == {"raw", "screen", "mouse", "cursor"}

\* terminal.get_frame().size(): the display that holds the least board
Display == {Rect(MinWidth + BorderCols, MinHeight + BorderRows)}

InitApp ==
    /\ NoGame
    /\ tick_dur = 0
    /\ turns = 0
    /\ pc = "start"
    /\ elapsed = 0
    /\ raw_mode = FALSE
    /\ cleaned = {}
    /\ res = "none"

\* enable_raw_mode()?
EnableRawMode ==
    /\ pc = "start"
    /\ \/ raw_mode' = TRUE /\ pc' = "enter_screen"
       \/ raw_mode' = FALSE /\ pc' = "done"
    /\ UNCHANGED <<game, tick_dur, turns, elapsed, cleaned, res>>

\* execute!(stdout, EnterAlternateScreen, EnableMouseCapture)?
EnterScreen ==
    /\ pc = "enter_screen"
    /\ pc' \in {"new_terminal", "done"}
    /\ UNCHANGED <<game, tick_dur, turns, elapsed, raw_mode, cleaned, res>>

\* Terminal::new(backend)?
NewTerminal ==
    /\ pc = "new_terminal"
    /\ pc' \in {"clear", "done"}
    /\ UNCHANGED <<game, tick_dur, turns, elapsed, raw_mode, cleaned, res>>

\* terminal.clear()?  and the call of run_app
ClearTerminal ==
    /\ pc = "clear"
    /\ pc' \in {"menu", "done"}
    /\ UNCHANGED <<game, tick_dur, turns, elapsed, raw_mode, cleaned, res>>

\* run_app returns r: its locals (game_opt, tick_dur, last_tick) are
\* dropped and main goes on at disable_raw_mode
returns(r) ==
    /\ res' = r
    /\ pc' = "disable_raw"
    /\ snake' = <<>>
    /\ dir' = Right
    /\ next_dir' = Right
    /\ apple' = Point(0, 0)
    /\ score' = 0
    /\ width' = 0
    /\ height' = 0
    /\ game_over' = FALSE
    /\ level' = 0
    /\ tick_dur' = 0
    /\ elapsed' = 0
    /\ turns' = 0

\* a draw, poll or read of any of the loops fails: run_app returns the error
LoopFails ==
    /\ pc \in {"menu", "outer", "playing", "over"}
    /\ returns("err")
    /\ UNCHANGED <<raw_mode, cleaned>>

\* the menu: q or Q
MenuQuit ==
    /\ pc = "menu"
    /\ returns("ok")
    /\ UNCHANGED <<raw_mode, cleaned>>

\* the menu: Enter
MenuStart ==
    /\ pc = "menu"
    /\ \E area \in Display : new(area, AllDraws)
    /\ pc' = "outer"
    /\ UNCHANGED <<tick_dur, turns, elapsed, raw_mode, cleaned, res>>

\* the menu: no key, or any other key
MenuIdle ==
    /\ pc = "menu"
    /\ UNCHANGED vars

\* the outer loop with a session: draw, then tick_dur and last_tick are
\* set and the play loop is entered
EnterPlay ==
    /\ pc = "outer"
    /\ tick_dur' = tick_duration(level)
    /\ elapsed' = 0
    /\ pc' = "playing"
    /\ UNCHANGED <<game, turns, raw_mode, cleaned, res>>

\* last_tick.elapsed() one round later; no interval is above BaseTickMs, so
\* the time is counted up to it
later(t) == IF t + FrameMs > BaseTickMs THEN BaseTickMs ELSE t + FrameMs

\* the play loop: q or Q
PlayQuit ==
    /\ pc = "playing"
    /\ returns("ok")
    /\ UNCHANGED <<raw_mode, cleaned>>

\* the play loop: r or R; break leaves the play loop for the loop after it
PlayRestart ==
    /\ pc = "playing"
    /\ \E area \in Display : new(area, AllDraws)
    /\ pc' = "over"
    /\ elapsed' = later(elapsed)
    /\ UNCHANGED <<tick_dur, turns, raw_mode, cleaned, res>>

\* the play loop: a movement key
PlayDirection ==
    /\ pc = "playing"
    /\ turns < MaxAppTurns
    /\ \E d \in DirectionEnum : set_direction(d)
    /\ turns' = turns + 1
    /\ pc' = "tick"
    /\ elapsed' = later(elapsed)
    /\ UNCHANGED <<tick_dur, raw_mode, cleaned, res>>

\* the play loop: no key within the timeout, or any other key
PlayIdle ==
    /\ pc = "playing"
    /\ pc' = "tick"
    /\ elapsed' = later(elapsed)
    /\ UNCHANGED <<game, tick_dur, turns, raw_mode, cleaned, res>>

\* (the play loop never left on game over)
after_tick_stays(over) == "playing"

\* if game.game_over { break }
after_tick(over) == IF over THEN "over" ELSE "playing"

\* the tick test, and the test of game_over that ends the play loop
Tick ==
    /\ pc = "tick"
    /\ IF elapsed >= tick_dur
       THEN step(AllDraws) /\ elapsed' = 0
       ELSE UNCHANGED <<game, elapsed>>
    /\ pc' = after_tick(game_over')
    /\ UNCHANGED <<tick_dur, turns, raw_mode, cleaned, res>>

\* the game-over loop: q or Q
OverQuit ==
    /\ pc = "over"
    /\ returns("ok")
    /\ UNCHANGED <<raw_mode, cleaned>>

\* (the session kept on restart)
OverRestartKeeps ==
    /\ pc = "over"
    /\ pc' = "outer"
    /\ UNCHANGED <<game, tick_dur, turns, elapsed, raw_mode, cleaned, res>>

\* the game-over loop: r or R; break ends the round of the outer loop
OverRestart ==
    /\ pc = "over"
    /\ \E area \in Display : new(area, AllDraws)
    /\ pc' = "outer"
    /\ UNCHANGED <<tick_dur, turns, elapsed, raw_mode, cleaned, res>>

\* the game-over loop: no key, or any other key
OverIdle ==
    /\ pc = "over"
    /\ UNCHANGED vars

\* disable_raw_mode()?
DisableRawMode ==
    /\ pc = "disable_raw"
    /\ cleaned' = cleaned \cup {"raw"}
    /\ \/ raw_mode' = FALSE /\ pc' = "leave_screen"
       \/ UNCHANGED raw_mode /\ pc' = "done"
    /\ UNCHANGED <<game, tick_dur, turns, elapsed, res>>

\* execute!(.., LeaveAlternateScreen, DisableMouseCapture)?  A failure is
\* at the first command or later.
LeaveScreen ==
    /\ pc = "leave_screen"
    /\ \/ cleaned' = cleaned \cup {"screen", "mouse"} /\ pc' = "show_cursor"
       \/ cleaned' = cleaned \cup {"screen", "mouse"} /\ pc' = "done"
       \/ cleaned' = cleaned \cup {"screen"} /\ pc' = "done"
    /\ UNCHANGED <<game, tick_dur, turns, elapsed, raw_mode, res>>

\* terminal.show_cursor()?
ShowCursor ==
    /\ pc = "show_cursor"
    /\ cleaned' = cleaned \cup {"cursor"}
    /\ pc' \in {"report", "done"}
    /\ UNCHANGED <<game, tick_dur, turns, elapsed, raw_mode, res>>

\* the error of run_app, if any, is printed and main returns
Report ==
    /\ pc = "report"
    /\ pc' = "done"
    /\ UNCHANGED <<game, tick_dur, turns, elapsed, raw_mode, cleaned, res>>

NextApp ==
    \/ EnableRawMode \/ EnterScreen \/ NewTerminal \/ ClearTerminal
    \/ LoopFails
    \/ MenuQuit \/ MenuStart \/ MenuIdle
    \/ EnterPlay
    \/ PlayQuit \/ PlayRestart \/ PlayDirection \/ PlayIdle
    \/ Tick
    \/ OverQuit \/ OverRestart \/ OverIdle
    \/ DisableRawMode \/ LeaveScreen \/ ShowCursor \/ Report

SpecApp == InitApp /\ [][NextApp]_vars

----------------------------------------------------------------------------
\* The vocabulary of the claims, stated without the program's arithmetic

Opposite(d) ==
    CASE d = Up -> Down [] d = Down -> Up [] d = Left -> Right [] d = Right -> Left

\* the cell one step from p in direction d, on the unbounded grid
Target(p, d) ==
    CASE d = Up    -> Point(p.x, p.y - 1)
      [] d = Down  -> Point(p.x, p.y + 1)
      [] d = Left  -> Point(p.x - 1, p.y)
      [] d = Right -> Point(p.x + 1, p.y)

InBoard(p) == p.x >= 0 /\ p.x < width /\ p.y >= 0 /\ p.y < height

OnSnake(p) == \E i \in DOMAIN snake : snake[i] = p

\* a step of a live session; the cell it heads for
LiveStep == ~game_over /\ (Step \/ StepLevel)

Heading == Target(snake[1], next_dir)

----------------------------------------------------------------------------
\* C1: while game_over is false, the snake's segments are pairwise distinct.
C1_SegmentsDistinct ==
    ~game_over =>
        \A i, j \in DOMAIN snake : i # j => snake[i] # snake[j]

\* a live snake of five segments whose head touches its own body, the
\* fourth segment, after steps and two apples
C1_Witness ==
    /\ ~game_over
    /\ Len(snake) = 5
    /\ \E d \in DirectionEnum : Target(snake[1], d) = snake[4]

\* C2: the apple's cell is never occupied by a snake segment (as claimed,
\* the fallback cell included).
C2_AppleOffSnake == ~OnSnake(apple)

\* C3: a step whose target cell is outside the board sets game_over and
\* leaves snake, score, level and apple unchanged, at all four walls.
C3_WallIsFatal ==
    [][(LiveStep /\ ~InBoard(Heading)) =>
          (game_over' /\ UNCHANGED <<snake, score, level, apple>>)]_vars

\* a session ended by a step to the left from column 0 (the saturating
\* subtraction leaves the head's cell as the computed new head)
C3_Witness ==
    /\ game_over
    /\ snake[1].x = 0
    /\ dir = Left

\* C4: the direction a step commits is never the opposite of the direction
\* committed before it, and the new head is never the second segment.
C4_NoReversal ==
    [][LiveStep =>
          (dir' # Opposite(dir) /\ Target(snake[1], dir') # snake[2])]_vars

\* a live session moving left, after the player turned twice from Right
C4_Witness == ~game_over /\ dir = Left /\ next_dir # Left

\* C5: set_direction(d) keeps next_dir when d is the opposite of dir, sets
\* next_dir to d otherwise, and changes nothing else.
C5_SetDirectionEffect ==
    [][\A d \in DirectionEnum :
          set_direction(d) =>
              /\ next_dir' = (IF d = Opposite(dir) THEN next_dir ELSE d)
              /\ UNCHANGED <<dir, snake, apple, score, level, game_over>>]_vars

\* a pending direction that differs from the committed one: set_direction
\* accepted it, and the opposite of dir was not accepted
C5_Witness == ~game_over /\ next_dir # dir /\ dir # Right

\* C6: once game_over is true a step changes nothing, and game_over turns
\* false again only by Game::new.
C6_OverIsTerminal ==
    [][game_over =>
          /\ (Step \/ StepLevel) =>
                 UNCHANGED <<snake, score, level, apple, dir, game_over>>
          /\ ~game_over' => Restart]_vars

\* a finished session with a pending direction that no step committed
C6_Witness == game_over /\ next_dir # dir /\ score > 0

\* C7: a step to the apple's cell (in the board, off the snake) adds 1 to
\* the score and puts the new head in front of the whole previous snake.
C7_EatGrows ==
    [][(LiveStep /\ InBoard(Heading) /\ ~OnSnake(Heading) /\ Heading = apple) =>
          /\ score' = score + 1
          /\ Len(snake') = Len(snake) + 1
          /\ snake' = <<Heading>> \o snake]_vars

\* a session that ate two apples
C7_Witness == score = 2 /\ Len(snake) = 5

\* C8: a step to a free cell that is not the apple moves the snake (new
\* head in front, last segment dropped) and keeps length, score, level and
\* apple; with no apple eaten the length stays 3.
C8_MoveKeepsLength ==
    /\ [][(LiveStep /\ InBoard(Heading) /\ ~OnSnake(Heading) /\ Heading # apple) =>
             /\ snake' = <<Heading>> \o SubSeq(snake, 1, Len(snake) - 1)
             /\ Len(snake') = Len(snake)
             /\ UNCHANGED <<score, level, apple>>]_vars
    /\ [](score = 0 => Len(snake) = 3)

\* a session that moved away from its first row without eating
C8_Witness ==
    /\ ~game_over
    /\ score = 0
    /\ snake[1].y # height \div 2
    /\ snake[3].y # height \div 2

\* C9: level is 1 + score / 5 in every state.
C9_LevelFollowsScore == level = 1 + (score \div LevelEvery)

\* a session past the second level change: eleven apples, level 3
C9_Witness == score = 11 /\ level = 3

\* C10: tick_duration is max(160 - 10 * (level - 1), 40): 10 less for each
\* level up to 13, 40 from level 13 on, never below 40.
C10_TickDuration ==
    tick_dur # 0 =>
        /\ tick_dur = (IF 160 - 10 * (level - 1) > 40
                       THEN 160 - 10 * (level - 1) ELSE 40)
        /\ tick_dur >= 40
        /\ level < 13 => tick_duration(level + 1) = tick_dur - 10
        /\ level >= 13 => tick_dur = 40 /\ tick_duration(level + 1) = 40

\* the tick computed for a level beyond the floor
C10_Witness == tick_dur = 40 /\ level > 17

\* C12: Game::new gives, for every display area, a board of at least 10 by
\* 5 with a snake of three distinct cells in a row, (x,y), (x-1,y), (x-2,y),
\* all in the board, facing Right, with score 0, level 1 and game_over false.
C12_FreshSession ==
    snake # <<>> =>
        /\ width >= 10
        /\ height >= 5
        /\ Len(snake) = 3
        /\ snake[2] = Point(snake[1].x - 1, snake[1].y)
        /\ snake[3] = Point(snake[1].x - 2, snake[1].y)
        /\ \A i \in 1..3 : InBoard(snake[i])
        /\ \A i, j \in 1..3 : i # j => snake[i] # snake[j]
        /\ dir = Right
        /\ next_dir = Right
        /\ score = 0
        /\ level = 1
        /\ ~game_over

\* a session built for an area smaller than the borders, on the least board
C12_Witness == snake # <<>> /\ width = 10 /\ height = 5

\* C17: a step onto any snake segment, the tail's cell included, sets
\* game_over and leaves snake, score, level and apple unchanged.
C17_SelfCollisionIsFatal ==
    [][(LiveStep /\ OnSnake(Heading)) =>
          (game_over' /\ UNCHANGED <<snake, score, level, apple>>)]_vars

\* a session ended by a step onto the cell of its own tail
C17_Witness ==
    /\ game_over
    /\ Len(snake) >= 4
    /\ Target(snake[1], dir) = snake[Len(snake)]

\* C18: the snake has at least one segment and consecutive segments are
\* one cell apart.
C18_SegmentsAdjacent ==
    /\ Len(snake) >= 1
    /\ \A i \in 1..(Len(snake) - 1) :
          \/ snake[i].x = snake[i + 1].x /\ snake[i].y - snake[i + 1].y \in {-1, 1}
          \/ snake[i].y = snake[i + 1].y /\ snake[i].x - snake[i + 1].x \in {-1, 1}

\* a live snake with a corner, its head in column 0 after a step to the left
C18_Witness ==
    /\ ~game_over
    /\ snake[1].x = 0
    /\ dir = Left
    /\ snake[Len(snake)].y # snake[1].y

\* C19: every segment and the apple are in the board, and the board's size
\* does not change during a session.
C19_InBoard ==
    /\ [](InBoard(apple) /\ \A i \in DOMAIN snake : InBoard(snake[i]))
    /\ [][UNCHANGED <<width, height>> \/ Restart]_vars

\* the apple on the fallback cell, under the snake
C19_Witness == apple = Point(1, 1) /\ OnSnake(apple) /\ InBoard(apple)

\* C20: the snake's length is 3 + score; the score changes only by 1, on
\* a step that lengthens the snake by 1, until the session is replaced by
\* a new one.
C20_LengthIsScore ==
    /\ [](Len(snake) = 3 + score)
    /\ [][\/ score' = score /\ Len(snake') = Len(snake)
          \/ LiveStep /\ score' = score + 1 /\ Len(snake') = Len(snake) + 1
          \/ score' = 0 /\ Len(snake') = 3 /\ ~(Step \/ SetDirection)]_vars

\* a session that ended after one apple
C20_Witness == game_over /\ score = 1 /\ Len(snake) = 4

----------------------------------------------------------------------------
\* The modes of the loop: GameOver is the loop that waits for r or q;
\* Playing is the play loop and what enters it
InGameOver == pc = "over"

InPlaying == pc \in {"outer", "playing", "tick"}

\* a session as Game::new leaves it, sized to the display
FreshSession ==
    /\ score = 0
    /\ level = 1
    /\ ~game_over
    /\ Len(snake) = 3
    /\ \E area \in Display :
          /\ width = max(area.width - BorderCols, MinWidth)
          /\ height = max(area.height - BorderRows, MinHeight)

\* C11: in Playing mode a step is invoked (and the accumulated time reset)
\* whenever the accumulated time is at least the tick interval of the
\* session's current level (as claimed; the code tests the interval that
\* held when play began).
C11_StepWhenDue ==
    [][(Tick /\ elapsed >= tick_duration(level)) => elapsed' = 0]_vars

\* C13: an execution that enabled raw mode ends only after every cleanup
\* call was attempted (as claimed, whichever I/O operation failed).
C13_CleanupAttempted ==
    (pc = "done" /\ (raw_mode \/ cleaned # {})) => cleaned = CleanupCalls

\* C14: a restart key read in Playing mode leaves the loop in Playing mode
\* with a fresh session (as claimed, without a further key press).
C14_RestartResumes ==
    [][PlayRestart => (InPlaying' /\ FreshSession')]_vars

\* C15: in GameOver mode restart builds a fresh session sized to the
\* display and the loop goes to Playing, where play is entered with that
\* session unchanged; quit leaves the loop; anything else leaves mode and
\* session unchanged.
C15_OverRestart ==
    [][/\ InGameOver =>
            \/ InGameOver' /\ UNCHANGED game
            \/ pc' = "outer" /\ FreshSession'
            \/ pc' = "disable_raw" /\ res' \in {"ok", "err"}
       /\ pc = "outer" =>
            \/ /\ pc' = "playing"
               /\ UNCHANGED game
               /\ tick_dur' = tick_duration(level)
               /\ elapsed' = 0
            \/ pc' = "disable_raw" /\ res' = "err"]_vars

\* the play loop entered again after a restart from the game-over loop: the
\* menu starts a session before any direction key of the run
C15_Witness == pc = "playing" /\ elapsed = 0 /\ turns > 0 /\ FreshSession
               /\ snake[1].x = width \div 2 /\ dir = Right /\ next_dir = Right

\* C16: the loop is in GameOver mode from the round in which step sets
\* game_over, and from then on the session changes only by restart or by
\* the end of the loop.
C16_OverLeavesPlaying ==
    /\ [](game_over => InGameOver)
    /\ [][game_over =>
             \/ UNCHANGED game
             \/ pc' = "outer" /\ FreshSession'
             \/ pc' = "disable_raw" /\ snake' = <<>>]_vars

\* the game-over loop with a session that a step ended, after an apple and
\* a direction key
C16_Witness == InGameOver /\ game_over /\ score > 0 /\ turns > 0

====
